---- MODULE Spec2Model ----
(***************************************************************************)
(* A model of fastpack (src/fastpack/core.py): the MessagePack-compatible  *)
(* encoder pack / _pack_value and decoder unpack / _unpack_value, together *)
(* with the type registry that src/fastpack/__init__.py imports.           *)
(*                                                                         *)
(* Python values are pairs <<tag, payload>>:                               *)
(*   nil, bool (v = 0 or 1), int (sign and magnitude in 16-bit limbs, so   *)
(*   that the whole range -2^63 .. 2^64-1 and the first values outside it  *)
(*   are represented within 32-bit integer arithmetic), float              *)
(*   (sign, biased exponent, 52-bit mantissa in limbs), str (sequence of   *)
(*   code points), bytes (sequence of 0..255), list (sequence of values),  *)
(*   dict (sequence of <<key, value>> in insertion order), and the values  *)
(*   core.py has no branch for: tuple, set, object, dataclass and          *)
(*   namedtuple instances, and instances of classes that define            *)
(*   __fastpack_encode__ / __fastpack_decode__.                            *)
(***************************************************************************)
EXTENDS Integers, Sequences, FiniteSets, TLC

(***************************************************************************)
(* Python values                                                           *)
(***************************************************************************)
\* The base of the limbs ints and mantissas are held in.
Limb == 256 * 256

PyNone == <<"nil", 0>>
PyBool(b) == <<"bool", IF b THEN 1 ELSE 0>>
PyTrue == PyBool(TRUE)
PyFalse == PyBool(FALSE)

\* An int from its sign (1 = negative) and its magnitude, five 16-bit limbs,
\* most significant first; the first limb is non-zero only beyond 2^64-1.
MkInt(neg, mag) == <<"int", [neg |-> neg, mag |-> mag]>>

\* An int from a small number (|n| < 2^31).
PyInt(n) ==
    LET a == IF n < 0 THEN 0 - n ELSE n
    IN  MkInt(IF n < 0 THEN 1 ELSE 0, <<0, 0, 0, a \div Limb, a % Limb>>)

\* The small number of an int whose magnitude is below 2^31.
IsSmall(x) == x[2].mag[1] = 0 /\ x[2].mag[2] = 0 /\ x[2].mag[3] = 0 /\ x[2].mag[4] < 32768
AsNum(x) ==
    LET a == x[2].mag[4] * Limb + x[2].mag[5]
    IN  IF x[2].neg = 1 THEN 0 - a ELSE a

MagLE(x, y) == \A i \in 1..5 : (\A j \in 1..(i - 1) : x[j] = y[j]) => x[i] <= y[i]

\* a <= b on ints.
IntLE(a, b) ==
    IF a[2].neg # b[2].neg THEN a[2].neg = 1
    ELSE IF a[2].neg = 0 THEN MagLE(a[2].mag, b[2].mag)
    ELSE MagLE(b[2].mag, a[2].mag)

IntLT(a, b) == IntLE(a, b) /\ a # b

PyFloat(s, e, m) == <<"float", [s |-> s, e |-> e, m |-> m]>>
PyStr(cps) == <<"str", cps>>
PyBytes(bs) == <<"bytes", bs>>
PyList(items) == <<"list", items>>
PyDict(pairs) == <<"dict", pairs>>

(***************************************************************************)
(* Format markers, core.py lines 11-34                                     *)
(***************************************************************************)
_NONE == 192
_FALSE == 194
_TRUE == 195
_BIN8 == 196
_BIN16 == 197
_BIN32 == 198
_FLOAT32 == 202
_FLOAT64 == 203
_UINT8 == 204
_UINT16 == 205
_UINT32 == 206
_UINT64 == 207
_INT8 == 208
_INT16 == 209
_INT32 == 210
_INT64 == 211
_STR8 == 217
_STR16 == 218
_STR32 == 219
_ARRAY16 == 220
_ARRAY32 == 221
_MAP16 == 222
_MAP32 == 223

(***************************************************************************)
(* struct.pack / struct.unpack, big-endian                                 *)
(***************************************************************************)
LimbBytes(l) == <<l \div 256, l % 256>>

\* The integer constants _pack_int compares against.
Zero == PyInt(0)
U8Max == PyInt(255)
U16Max == PyInt(65535)
U32Max == MkInt(0, <<0, 0, 0, 65535, 65535>>)
U64Max == MkInt(0, <<0, 65535, 65535, 65535, 65535>>)
I64Max == MkInt(0, <<0, 32767, 65535, 65535, 65535>>)
I64Min == MkInt(1, <<0, 32768, 0, 0, 0>>)
I32Min == MkInt(1, <<0, 0, 0, 32768, 0>>)

\* limbs + 1, wrapping at the width of the sequence.
LimbInc(s) ==
    LET n == Len(s)
        open == {i \in 1..n : s[i] < Limb - 1}
        k == IF open = {} THEN 0 ELSE CHOOSE i \in open : \A j \in open : j <= i
    IN  [i \in 1..n |-> IF i < k THEN s[i] ELSE IF i = k THEN s[i] + 1 ELSE 0]

LimbNot(s) == [i \in 1..Len(s) |-> Limb - 1 - s[i]]

\* Two's complement negation of a limb sequence, at its own width.
TwosComp(s) == LimbInc(LimbNot(s))

\* The lowest n limbs of a magnitude.
LowLimbs(mag, n) == SubSeq(mag, 6 - n, 5)

\* struct.pack(">H" | ">I" | ">Q", value): nbytes is 2, 4 or 8.
StructPackU(value, nbytes) ==
    LET top == IF nbytes = 2 THEN U16Max ELSE IF nbytes = 4 THEN U32Max ELSE U64Max
        ls == LowLimbs(value[2].mag, nbytes \div 2)
    IN  IF IntLE(Zero, value) /\ IntLE(value, top)
        THEN [err |-> "none",
              out |-> [i \in 1..nbytes |-> LimbBytes(ls[(i + 1) \div 2])[2 - (i % 2)]]]
        ELSE [err |-> "struct.error", out |-> <<>>]

\* struct.pack(">b" | ">h" | ">i" | ">q", value): nbytes is 1, 2, 4 or 8.
StructPackS(value, nbytes) ==
    LET lo == IF nbytes = 1 THEN PyInt(-128) ELSE IF nbytes = 2 THEN PyInt(-32768)
              ELSE IF nbytes = 4 THEN I32Min ELSE I64Min
        hi == IF nbytes = 1 THEN PyInt(127) ELSE IF nbytes = 2 THEN PyInt(32767)
              ELSE IF nbytes = 4 THEN MkInt(0, <<0, 0, 0, 32767, 65535>>) ELSE I64Max
        n == IF nbytes = 1 THEN 1 ELSE nbytes \div 2
        raw == LowLimbs(value[2].mag, n)
        ls == IF value[2].neg = 1 THEN TwosComp(raw) ELSE raw
    IN  IF ~(IntLE(lo, value) /\ IntLE(value, hi))
        THEN [err |-> "struct.error", out |-> <<>>]
        ELSE IF nbytes = 1 THEN [err |-> "none", out |-> <<ls[1] % 256>>]
        ELSE [err |-> "none",
              out |-> [i \in 1..nbytes |-> LimbBytes(ls[(i + 1) \div 2])[2 - (i % 2)]]]

\* The limbs of a big-endian byte string of even length.
BytesLimbs(bs) == [i \in 1..(Len(bs) \div 2) |-> bs[2 * i - 1] * 256 + bs[2 * i]]

\* A magnitude of five limbs from its lowest limbs.
PadMag(ls) == [i \in 1..5 |-> IF i <= 5 - Len(ls) THEN 0 ELSE ls[i - (5 - Len(ls))]]

\* struct.unpack(">H" | ">I" | ">Q", bs)[0]; a slice of the wrong length is struct.error.
StructUnpackU(bs, nbytes) ==
    IF Len(bs) # nbytes THEN [err |-> "struct.error", val |-> PyNone]
    ELSE [err |-> "none", val |-> MkInt(0, PadMag(BytesLimbs(bs)))]

\* ">b", ">h", ">i", ">q" read with the unsigned format of the same width.
StructUnpackSUnsigned(bs, nbytes) == StructUnpackU(bs, nbytes)
\* struct.unpack(">b" | ">h" | ">i" | ">q", bs)[0].
StructUnpackS(bs, nbytes) ==
    IF Len(bs) # nbytes THEN [err |-> "struct.error", val |-> PyNone]
    ELSE IF nbytes = 1
    THEN [err |-> "none", val |-> PyInt(IF bs[1] >= 128 THEN bs[1] - 256 ELSE bs[1])]
    ELSE LET ls == BytesLimbs(bs)
         IN  [err |-> "none",
              val |-> IF ls[1] >= 32768 THEN MkInt(1, PadMag(TwosComp(ls)))
                      ELSE MkInt(0, PadMag(ls))]

\* struct.pack(">d", value): sign, 11-bit exponent, 52-bit mantissa (4 + 3*16 bits).
StructPackD(value) ==
    LET f == value[2]
    IN  <<f.s * 128 + f.e \div 16, (f.e % 16) * 16 + f.m[1]>>
        \o LimbBytes(f.m[2]) \o LimbBytes(f.m[3]) \o LimbBytes(f.m[4])

\* struct.unpack(">d", bs)[0].
StructUnpackD(bs) ==
    IF Len(bs) # 8 THEN [err |-> "struct.error", val |-> PyNone]
    ELSE [err |-> "none",
          val |-> PyFloat(bs[1] \div 128, (bs[1] % 128) * 16 + bs[2] \div 16,
                          <<bs[2] % 16, bs[3] * 256 + bs[4], bs[5] * 256 + bs[6],
                            bs[7] * 256 + bs[8]>>)]

(***************************************************************************)
(* str.encode("utf-8") / bytes.decode("utf-8")                             *)
(***************************************************************************)
IsSurrogate(c) == 55296 <= c /\ c <= 57343

\* The UTF-8 bytes of one code point (0 .. 0x10FFFF, no surrogate).
Utf8Char(c) ==
    IF c < 128 THEN <<c>>
    ELSE IF c < 2048 THEN <<192 + c \div 64, 128 + (c % 64)>>
    ELSE IF c < 65536 THEN <<224 + c \div 4096, 128 + ((c \div 64) % 64), 128 + (c % 64)>>
    ELSE <<240 + c \div 262144, 128 + ((c \div 4096) % 64), 128 + ((c \div 64) % 64),
           128 + (c % 64)>>

RECURSIVE Flatten(_, _, _)
\* ss[lo] \o ... \o ss[hi]
Flatten(ss, lo, hi) ==
    IF lo > hi THEN <<>>
    ELSE IF lo = hi THEN ss[lo]
    ELSE LET mid == (lo + hi) \div 2
         IN  Flatten(ss, lo, mid) \o Flatten(ss, mid + 1, hi)

\* value.encode("utf-8"): a lone surrogate is UnicodeEncodeError.
Utf8Encode(cps) ==
    IF \E i \in 1..Len(cps) : IsSurrogate(cps[i])
    THEN [err |-> "UnicodeEncodeError", out |-> <<>>]
    ELSE [err |-> "none",
          out |-> Flatten([i \in 1..Len(cps) |-> Utf8Char(cps[i])], 1, Len(cps))]

IsCont(b) == 128 <= b /\ b <= 191

\* The length of the sequence a lead byte announces, 0 for a byte that leads nothing.
Utf8Width(b) ==
    IF b < 128 THEN 1
    ELSE IF 194 <= b /\ b <= 223 THEN 2
    ELSE IF 224 <= b /\ b <= 239 THEN 3
    ELSE IF 240 <= b /\ b <= 244 THEN 4
    ELSE 0

\* The second byte's range narrows after E0, ED, F0 and F4 (no overlong form, no
\* surrogate, nothing above U+10FFFF).
Utf8SecondOk(lead, b) ==
    IF lead = 224 THEN 160 <= b /\ b <= 191
    ELSE IF lead = 237 THEN 128 <= b /\ b <= 159
    ELSE IF lead = 240 THEN 144 <= b /\ b <= 191
    ELSE IF lead = 244 THEN 128 <= b /\ b <= 143
    ELSE IsCont(b)

\* One character of the strict decoder: st is [err, i, val], i the position of
\* the next byte (from 1) and val the code points so far.
Utf8Step(bs, st) ==
    LET i == st.i
        b == bs[i]
        w == Utf8Width(b)
        bad == [err |-> "UnicodeDecodeError", i |-> i, val |-> <<>>]
        Put(c) == [err |-> "none", i |-> i + w, val |-> Append(st.val, c)]
    IN  IF w = 0 \/ i + w - 1 > Len(bs) THEN bad
        ELSE IF w = 1 THEN Put(b)
        ELSE IF ~Utf8SecondOk(b, bs[i + 1]) \/ \E j \in (i + 2)..(i + w - 1) : ~IsCont(bs[j])
        THEN bad
        ELSE IF w = 2 THEN Put((b - 192) * 64 + (bs[i + 1] - 128))
        ELSE IF w = 3
        THEN Put((b - 224) * 4096 + (bs[i + 1] - 128) * 64 + (bs[i + 2] - 128))
        ELSE Put((b - 240) * 262144 + (bs[i + 1] - 128) * 4096
                  + (bs[i + 2] - 128) * 64 + (bs[i + 3] - 128))

RECURSIVE Utf8Run(_, _, _)
\* Up to n characters from st, one after the other, until the bytes end or one
\* is invalid (halving n keeps the evaluation shallow; the order is the decoder's).
Utf8Run(bs, st, n) ==
    IF st.err # "none" \/ st.i > Len(bs) \/ n = 0 THEN st
    ELSE IF n = 1 THEN Utf8Step(bs, st)
    ELSE Utf8Run(bs, Utf8Run(bs, st, n \div 2), n - n \div 2)

\* bs.decode("utf-8")
Utf8Decode(bs) ==
    LET st == Utf8Run(bs, [err |-> "none", i |-> 1, val |-> <<>>], Len(bs))
    IN  [err |-> st.err, val |-> st.val]

RECURSIVE BitAnd(_, _)
\* a & b on non-negative numbers.
BitAnd(a, b) ==
    IF a = 0 \/ b = 0 THEN 0
    ELSE (a % 2) * (b % 2) + 2 * BitAnd(a \div 2, b \div 2)

RECURSIVE BitOr(_, _)
\* a | b on non-negative numbers.
BitOr(a, b) ==
    IF a = 0 THEN b
    ELSE IF b = 0 THEN a
    ELSE (IF a % 2 = 1 \/ b % 2 = 1 THEN 1 ELSE 0) + 2 * BitOr(a \div 2, b \div 2)

(***************************************************************************)
(* The encoder, core.py lines 37-227.  Every _pack_* takes the buffer as   *)
(* it is on entry and yields [err, buf]: the exception raised ("none" when *)
(* the call returns) and the buffer as the call leaves it.                 *)
(***************************************************************************)
Ok(buffer) == [err |-> "none", buf |-> buffer]
Raise(e, buffer) == [err |-> e, buf |-> buffer]

\* buffer.extend(struct.pack(...)): a failing struct.pack extends nothing.
Extend(buffer, packed) == [err |-> packed.err, buf |-> buffer \o packed.out]

\* struct.pack(">H" | ">I", length) of a length or a count.
PackLen(length, nbytes) == StructPackU(PyInt(length), nbytes)

\* The positive fixint range one too wide: 0 <= value <= 0x80.
IsPosFixintTo128(value) == IntLE(Zero, value) /\ IntLE(value, PyInt(128))
\* The guards of _pack_int, lines 117-141, in the order of the chain.
IsPosFixint(value) == IntLE(Zero, value) /\ IntLE(value, PyInt(127))
IsNegFixint(value) == IntLE(PyInt(-32), value) /\ IntLT(value, Zero)
FitsUint8(value) == IntLE(Zero, value) /\ IntLE(value, U8Max)
FitsUint16(value) == IntLE(Zero, value) /\ IntLE(value, U16Max)
FitsUint32(value) == IntLE(Zero, value) /\ IntLE(value, U32Max)
FitsUint64(value) == IntLE(Zero, value) /\ IntLE(value, U64Max)
FitsInt8(value) == IntLE(PyInt(-128), value) /\ IntLT(value, Zero)
FitsInt16(value) == IntLE(PyInt(-32768), value) /\ IntLT(value, Zero)
FitsInt32(value) == IntLE(I32Min, value) /\ IntLT(value, Zero)

_pack_int(value, buffer) ==
    IF IsPosFixint(value) THEN Ok(Append(buffer, AsNum(value)))
    ELSE IF IsNegFixint(value) THEN Ok(Append(buffer, AsNum(value) % 256))
    ELSE IF FitsUint8(value) THEN Ok(Append(Append(buffer, _UINT8), AsNum(value)))
    ELSE IF FitsUint16(value) THEN Extend(Append(buffer, _UINT16), StructPackU(value, 2))
    ELSE IF FitsUint32(value) THEN Extend(Append(buffer, _UINT32), StructPackU(value, 4))
    ELSE IF FitsUint64(value) THEN Extend(Append(buffer, _UINT64), StructPackU(value, 8))
    ELSE IF FitsInt8(value) THEN Extend(Append(buffer, _INT8), StructPackS(value, 1))
    ELSE IF FitsInt16(value) THEN Extend(Append(buffer, _INT16), StructPackS(value, 2))
    ELSE IF FitsInt32(value) THEN Extend(Append(buffer, _INT32), StructPackS(value, 4))
    ELSE Extend(Append(buffer, _INT64), StructPackS(value, 8))

_pack_float(value, buffer) == Ok(Append(buffer, _FLOAT64) \o StructPackD(value))

\* The length form chosen by len(value), the number of characters.
_pack_str_by_chars(value, buffer) ==
    LET encoded == Utf8Encode(value[2])
        length == Len(value[2])
        head == IF length <= 31 THEN Ok(Append(buffer, BitOr(160, length % 32)))
                ELSE IF length <= 255 THEN Ok(Append(Append(buffer, _STR8), length))
                ELSE IF length <= 65535
                THEN Extend(Append(buffer, _STR16), PackLen(length, 2))
                ELSE Extend(Append(buffer, _STR32), PackLen(length, 4))
    IN  IF encoded.err # "none" THEN Raise(encoded.err, buffer)
        ELSE Ok(head.buf \o encoded.out)
_pack_str(value, buffer) ==
    LET encoded == Utf8Encode(value[2])
        length == Len(encoded.out)
        head == IF length <= 31 THEN Ok(Append(buffer, BitOr(160, length)))
                ELSE IF length <= 255 THEN Ok(Append(Append(buffer, _STR8), length))
                ELSE IF length <= 65535
                THEN Extend(Append(buffer, _STR16), PackLen(length, 2))
                ELSE Extend(Append(buffer, _STR32), PackLen(length, 4))
    IN  IF encoded.err # "none" THEN Raise(encoded.err, buffer)
        ELSE IF head.err # "none" THEN head
        ELSE Ok(head.buf \o encoded.out)

_pack_bytes(value, buffer) ==
    LET length == Len(value[2])
        head == IF length <= 255 THEN Ok(Append(Append(buffer, _BIN8), length))
                ELSE IF length <= 65535
                THEN Extend(Append(buffer, _BIN16), PackLen(length, 2))
                ELSE Extend(Append(buffer, _BIN32), PackLen(length, 4))
    IN  IF head.err # "none" THEN head
        ELSE Ok(head.buf \o value[2])

\* The count header of a list (base 0x90, ARRAY16, ARRAY32) or of a dict
\* (base 0x80, MAP16, MAP32), lines 197-205 and 215-223.
CountHeader(length, fix, m16, m32, buffer) ==
    IF length <= 15 THEN Ok(Append(buffer, BitOr(fix, length)))
    ELSE IF length <= 65535 THEN Extend(Append(buffer, m16), PackLen(length, 2))
    ELSE Extend(Append(buffer, m32), PackLen(length, 4))

\* A value of no supported type packed as nil instead of refused.
UnsupportedAsNil(obj, buffer) == Ok(Append(buffer, _NONE))
\* The else branch of _pack_value, lines 111-112: nothing is appended.
Unsupported(obj, buffer) == Raise("TypeError", buffer)

RECURSIVE _pack_value(_, _)
RECURSIVE PackItems(_, _, _, _)

\* for item in items[lo..hi]: _pack_value(item, buffer); the first exception ends it.
PackItems(items, lo, hi, buffer) ==
    IF lo > hi THEN Ok(buffer)
    ELSE IF lo = hi THEN _pack_value(items[lo], buffer)
    ELSE LET mid == (lo + hi) \div 2
             left == PackItems(items, lo, mid, buffer)
         IN  IF left.err # "none" THEN left
             ELSE PackItems(items, mid + 1, hi, left.buf)

_pack_list(value, buffer) ==
    LET head == CountHeader(Len(value[2]), 144, _ARRAY16, _ARRAY32, buffer)
    IN  IF head.err # "none" THEN head
        ELSE PackItems(value[2], 1, Len(value[2]), head.buf)

\* The pairs taken last first: kn, vn, ..., k1, v1.
DictItemsReversed(pairs) ==
    [i \in 1..(2 * Len(pairs)) |-> pairs[Len(pairs) + 1 - ((i + 1) \div 2)][2 - (i % 2)]]
\* value.items() as k1, v1, k2, v2, ...
DictItems(pairs) == [i \in 1..(2 * Len(pairs)) |-> pairs[(i + 1) \div 2][2 - (i % 2)]]

_pack_dict(value, buffer) ==
    LET head == CountHeader(Len(value[2]), 128, _MAP16, _MAP32, buffer)
    IN  IF head.err # "none" THEN head
        ELSE PackItems(DictItems(value[2]), 1, 2 * Len(value[2]), head.buf)

_pack_value(obj, buffer) ==
    IF obj[1] = "nil" THEN Ok(Append(buffer, _NONE))
    ELSE IF obj = PyTrue THEN Ok(Append(buffer, _TRUE))
    ELSE IF obj = PyFalse THEN Ok(Append(buffer, _FALSE))
    ELSE IF obj[1] = "int" THEN _pack_int(obj, buffer)
    ELSE IF obj[1] = "float" THEN _pack_float(obj, buffer)
    ELSE IF obj[1] = "str" THEN _pack_str(obj, buffer)
    ELSE IF obj[1] = "bytes" THEN _pack_bytes(obj, buffer)
    ELSE IF obj[1] = "list" THEN _pack_list(obj, buffer)
    ELSE IF obj[1] = "dict" THEN _pack_dict(obj, buffer)
    ELSE Unsupported(obj, buffer)

\* pack(obj): the bytes returned, or the exception; buf is the local buffer as
\* the call leaves it, which no caller ever sees after an exception.
pack(obj) ==
    LET r == _pack_value(obj, <<>>)
    IN  [err |-> r.err, bytes |-> IF r.err = "none" THEN r.buf ELSE <<>>, buf |-> r.buf]

(***************************************************************************)
(* The decoder, core.py lines 65-79 and 230-379.  Offsets count from 0 as  *)
(* in the source; every _unpack_* yields [err, val, off].                  *)
(***************************************************************************)
Got(value, offset) == [err |-> "none", val |-> value, off |-> offset]
Fail(e) == [err |-> e, val |-> PyNone, off |-> 0]

EndOfData == "ValueError: Unexpected end of data"
UnknownMarker == "ValueError: Unknown format marker"

Min(a, b) == IF a <= b THEN a ELSE b

\* data[lo:hi], clamped to the data as Python clamps a slice.
Slice(data, lo, hi) == SubSeq(data, lo + 1, Min(hi, Len(data)))

\* Offsets a 32-bit length carries beyond Far are held as Far + offset: the
\* source only compares an offset with len(data), indexes or slices with it.
Far == 256 * 256 * 256 * 64

\* offset + length, for a length read from the stream.
Advance(offset, length) ==
    IF offset < Far /\ IsSmall(length) /\ AsNum(length) < Far
    THEN offset + AsNum(length)
    ELSE Far + (offset % Far)

\* struct.unpack(">f", bs)[0], widened to the float Python holds: 1 sign bit,
\* 8 exponent bits, 23 mantissa bits.
StructUnpackF(bs) ==
    IF Len(bs) # 4 THEN [err |-> "struct.error", val |-> PyNone]
    ELSE LET sgn == bs[1] \div 128
             e == (bs[1] % 128) * 2 + bs[2] \div 128
             m == (bs[2] % 128) * 65536 + bs[3] * 256 + bs[4]
             k == CHOOSE i \in 0..22 : 2 ^ i <= m /\ m < 2 ^ (i + 1)
             \* a 23-bit fraction as the top of a 52-bit mantissa
             Wide(f) == <<f \div 524288, (f \div 8) % 65536, (f % 8) * 8192, 0>>
         IN  [err |-> "none",
              val |-> IF e = 255 THEN PyFloat(sgn, 2047, Wide(m))
                      ELSE IF e > 0 THEN PyFloat(sgn, e + 896, Wide(m))
                      ELSE IF m = 0 THEN PyFloat(sgn, 0, <<0, 0, 0, 0>>)
                      ELSE PyFloat(sgn, k + 874, Wide((m - 2 ^ k) * 2 ^ (23 - k)))]

\* The dispatch guards of _unpack_value on the marker byte, in source order.
IsPosFixintMarker(marker) == marker <= 127
IsFixmap(marker) == 128 <= marker /\ marker <= 143
IsFixarray(marker) == 144 <= marker /\ marker <= 159
\* The fixstr range one too wide: 0xA0 <= marker <= 0xC0.
IsFixstrTo192(marker) == 160 <= marker /\ marker <= 192
IsFixstr(marker) == 160 <= marker /\ marker <= 191
IsNegFixintMarker(marker) == marker >= 224

_unpack_str(data, offset, length) ==
    LET value == Utf8Decode(Slice(data, offset, Advance(offset, length)))
    IN  IF value.err # "none" THEN Fail(value.err)
        ELSE Got(PyStr(value.val), Advance(offset, length))

\* The payload of a bin read to the end of the data: data[offset:].
UnpackBinToEnd(data, offset, length) ==
    Got(PyBytes(Slice(data, offset, Len(data))), Advance(offset, length))
\* data[offset:offset + length], offset + length of the three bin branches.
UnpackBin(data, offset, length) ==
    Got(PyBytes(Slice(data, offset, Advance(offset, length))), Advance(offset, length))

\* hash(key) raises TypeError for a list and for a dict.
Hashable(key) == key[1] \notin {"list", "dict"}

IsNaN(f) == f[2].e = 2047 /\ f[2].m # <<0, 0, 0, 0>>
IsFloatZero(f) == f[2].e = 0 /\ f[2].m = <<0, 0, 0, 0>>

\* The int a float equals, for floats below 2^29: [is |-> whether it is whole, n |-> it].
FloatWhole(f) ==
    LET ex == f[2].e - 1023
        top == f[2].m[1] * 16777216 + f[2].m[2] * 256 + f[2].m[3] \div 256
        sig == 268435456 + top
        n == sig \div (2 ^ (28 - ex))
    IN  IF IsFloatZero(f) THEN [is |-> TRUE, n |-> 0]
        ELSE IF ex < 0 \/ ex > 28 \/ f[2].m[3] % 256 # 0 \/ f[2].m[4] # 0
                \/ sig % (2 ^ (28 - ex)) # 0
        THEN [is |-> FALSE, n |-> 0]
        ELSE [is |-> TRUE, n |-> IF f[2].s = 1 THEN 0 - n ELSE n]

\* A bool counts as the int 0 or 1.
AsInt(x) == IF x[1] = "bool" THEN PyInt(x[2]) ELSE x

\* key == other with equal hashes, as a dict compares keys: numbers by value
\* (True == 1 == 1.0, 0.0 == -0.0, nan equal to nothing), the rest by content.
\* Floats of 2^29 and more are compared with floats only.
KeyEq(a, b) ==
    LET num == {"bool", "int", "float"}
    IN  IF a[1] \in num /\ b[1] \in num
        THEN IF a[1] = "float" /\ b[1] = "float"
             THEN ~IsNaN(a) /\ ~IsNaN(b) /\ (a = b \/ (IsFloatZero(a) /\ IsFloatZero(b)))
             ELSE IF a[1] = "float"
             THEN ~IsNaN(a) /\ FloatWhole(a).is /\ PyInt(FloatWhole(a).n) = AsInt(b)
             ELSE IF b[1] = "float"
             THEN ~IsNaN(b) /\ FloatWhole(b).is /\ PyInt(FloatWhole(b).n) = AsInt(a)
             ELSE AsInt(a) = AsInt(b)
        ELSE a[1] = b[1] /\ a = b

\* The first value of a key kept: a later pair with an equal key is dropped.
DictSetFirst(pairs, key, value) ==
    IF \E i \in 1..Len(pairs) : KeyEq(pairs[i][1], key) THEN pairs
    ELSE Append(pairs, <<key, value>>)
\* result[key] = value: an equal key keeps its place and its first spelling.
DictSet(pairs, key, value) ==
    IF \E i \in 1..Len(pairs) : KeyEq(pairs[i][1], key)
    THEN [i \in 1..Len(pairs) |->
             IF KeyEq(pairs[i][1], key) THEN <<pairs[i][1], value>> ELSE pairs[i]]
    ELSE Append(pairs, <<key, value>>)

\* The rounds a loop of `length` rounds is run for: every round reads at least
\* one byte or raises, so the rounds after the first len(data) + 1 never run.
RoundsOf(length, data) ==
    IF IntLE(length, PyInt(Len(data))) THEN AsNum(length) ELSE Len(data) + 1

RECURSIVE _unpack_value(_, _)
RECURSIVE Rounds(_, _, _, _)

\* One round of the loop of _unpack_array: item, offset = ...; result.append(item)
ArrayRound(data, st) ==
    LET item == _unpack_value(data, st.off)
    IN  IF item.err # "none" THEN item
        ELSE Got(Append(st.val, item.val), item.off)

\* One round of the loop of _unpack_map: key, value, then result[key] = value
MapRound(data, st) ==
    LET key == _unpack_value(data, st.off)
        value == _unpack_value(data, key.off)
    IN  IF key.err # "none" THEN key
        ELSE IF value.err # "none" THEN value
        ELSE IF ~Hashable(key.val) THEN Fail("TypeError: unhashable type")
        ELSE Got(DictSet(st.val, key.val, value.val), value.off)

\* n rounds from st = [err, val, off], one after the other; an exception ends
\* the loop (halving n keeps the evaluation shallow; the order is the loop's).
Rounds(data, st, n, kind) ==
    IF st.err # "none" \/ n = 0 THEN st
    ELSE IF n = 1 THEN IF kind = "map" THEN MapRound(data, st) ELSE ArrayRound(data, st)
    ELSE Rounds(data, Rounds(data, st, n \div 2, kind), n - n \div 2, kind)

_unpack_array(data, offset, length) ==
    LET st == Rounds(data, Got(<<>>, offset), RoundsOf(length, data), "array")
    IN  IF st.err # "none" THEN st ELSE Got(PyList(st.val), st.off)

_unpack_map(data, offset, length) ==
    LET st == Rounds(data, Got(<<>>, offset), RoundsOf(length, data), "map")
    IN  IF st.err # "none" THEN st ELSE Got(PyDict(st.val), st.off)

\* What follows a length: the payload of a bin or a str, the items of an array,
\* the pairs of a map.
Payload(kind, data, offset, length) ==
    CASE kind = "bin" -> UnpackBin(data, offset, length)
      [] kind = "str" -> _unpack_str(data, offset, length)
      [] kind = "array" -> _unpack_array(data, offset, length)
      [] kind = "map" -> _unpack_map(data, offset, length)

\* length = struct.unpack(fmt, data[offset:offset + n])[0]; offset += n;
\* return the payload -- the shape of every 16- and 32-bit branch.
WithLength(data, offset, n, kind) ==
    LET length == StructUnpackU(Slice(data, offset, offset + n), n)
    IN  IF length.err # "none" THEN Fail(length.err)
        ELSE Payload(kind, data, offset + n, length.val)

\* length = data[offset]; offset += 1; return the payload
WithLength8(data, offset, kind) ==
    IF offset >= Len(data) THEN Fail("IndexError")
    ELSE Payload(kind, data, offset + 1, PyInt(data[offset + 1]))

\* value = struct.unpack(fmt, data[offset:offset + n])[0]; return value, offset + n
Fixed(unpacked, offset, n) ==
    IF unpacked.err # "none" THEN Fail(unpacked.err)
    ELSE Got(unpacked.val, offset + n)

_unpack_value(data, offset) ==
    IF offset >= Len(data) THEN Fail(EndOfData)
    ELSE LET marker == data[offset + 1]
             off == offset + 1
         IN  IF IsPosFixintMarker(marker) THEN Got(PyInt(marker), off)
             ELSE IF IsFixmap(marker) THEN _unpack_map(data, off, PyInt(BitAnd(marker, 15)))
             ELSE IF IsFixarray(marker)
             THEN _unpack_array(data, off, PyInt(BitAnd(marker, 15)))
             ELSE IF IsFixstr(marker) THEN _unpack_str(data, off, PyInt(BitAnd(marker, 31)))
             ELSE IF IsNegFixintMarker(marker) THEN Fixed(StructUnpackS(<<marker>>, 1), off, 0)
             ELSE IF marker = _NONE THEN Got(PyNone, off)
             ELSE IF marker = _FALSE THEN Got(PyFalse, off)
             ELSE IF marker = _TRUE THEN Got(PyTrue, off)
             ELSE IF marker = _BIN8 THEN WithLength8(data, off, "bin")
             ELSE IF marker = _BIN16 THEN WithLength(data, off, 2, "bin")
             ELSE IF marker = _BIN32 THEN WithLength(data, off, 4, "bin")
             ELSE IF marker = _FLOAT32
             THEN Fixed(StructUnpackF(Slice(data, off, off + 4)), off, 4)
             ELSE IF marker = _FLOAT64
             THEN Fixed(StructUnpackD(Slice(data, off, off + 8)), off, 8)
             ELSE IF marker = _UINT8
             THEN IF off >= Len(data) THEN Fail("IndexError")
                  ELSE Got(PyInt(data[off + 1]), off + 1)
             ELSE IF marker = _UINT16
             THEN Fixed(StructUnpackU(Slice(data, off, off + 2), 2), off, 2)
             ELSE IF marker = _UINT32
             THEN Fixed(StructUnpackU(Slice(data, off, off + 4), 4), off, 4)
             ELSE IF marker = _UINT64
             THEN Fixed(StructUnpackU(Slice(data, off, off + 8), 8), off, 8)
             ELSE IF marker = _INT8
             THEN Fixed(StructUnpackS(Slice(data, off, off + 1), 1), off, 1)
             ELSE IF marker = _INT16
             THEN Fixed(StructUnpackS(Slice(data, off, off + 2), 2), off, 2)
             ELSE IF marker = _INT32
             THEN Fixed(StructUnpackS(Slice(data, off, off + 4), 4), off, 4)
             ELSE IF marker = _INT64
             THEN Fixed(StructUnpackS(Slice(data, off, off + 8), 8), off, 8)
             ELSE IF marker = _STR8 THEN WithLength8(data, off, "str")
             ELSE IF marker = _STR16 THEN WithLength(data, off, 2, "str")
             ELSE IF marker = _STR32 THEN WithLength(data, off, 4, "str")
             ELSE IF marker = _ARRAY16 THEN WithLength(data, off, 2, "array")
             ELSE IF marker = _ARRAY32 THEN WithLength(data, off, 4, "array")
             ELSE IF marker = _MAP16 THEN WithLength(data, off, 2, "map")
             ELSE IF marker = _MAP32 THEN WithLength(data, off, 4, "map")
             ELSE Fail(UnknownMarker)

\* unpack(data): the value returned, or the exception.
unpack(data) == _unpack_value(data, 0)

\* The array or map whose marker is at data[offset]: its count and the offset
\* after it; kind is "none" for any other marker and for a count cut short.
CountAt(data, offset) ==
    LET marker == data[offset + 1]
        n == IF marker \in {_ARRAY16, _MAP16} THEN 2
             ELSE IF marker \in {_ARRAY32, _MAP32} THEN 4 ELSE 0
        length == StructUnpackU(Slice(data, offset + 1, offset + 1 + n), n)
        kind == IF IsFixmap(marker) \/ marker \in {_MAP16, _MAP32} THEN "map" ELSE "array"
    IN  IF IsFixmap(marker) \/ IsFixarray(marker)
        THEN [kind |-> kind, count |-> PyInt(BitAnd(marker, 15)), off |-> offset + 1]
        ELSE IF n > 0 /\ length.err = "none"
        THEN [kind |-> kind, count |-> length.val, off |-> offset + 1 + n]
        ELSE [kind |-> "none", count |-> Zero, off |-> offset]

\* _unpack_str is called for the marker at data[offset]: a fixstr, or a str
\* 8, 16 or 32 whose length is all there.
StrCalled(data, offset) ==
    LET marker == data[offset + 1]
        n == CASE marker = _STR8 -> 1 [] marker = _STR16 -> 2 [] marker = _STR32 -> 4
               [] OTHER -> 0
    IN  IsFixstr(marker) \/ (n > 0 /\ offset + 1 + n <= Len(data))

Max(a, b) == IF a >= b THEN a ELSE b

RECURSIVE Frames(_, _, _, _)

\* The deepest the call stack gets, in frames of _unpack_value, _unpack_array,
\* _unpack_map and _unpack_str. For kind "value": in _unpack_value(data,
\* offset), one frame for the call, one for the reader it returns through, and
\* those of the items. For the other kinds: in the calls the loop of
\* _unpack_array ("array") or _unpack_map makes from offset on with `rounds`
\* rounds left, the next call being for a key ("key"), for the value of a key
\* ("val"), or for the value of a key that cannot be hashed ("last"). The
\* loop ends with the first call that raises and, after the value is read,
\* with a key that cannot be hashed.
Frames(data, offset, rounds, kind) ==
    IF kind = "value"
    THEN IF offset >= Len(data) THEN 1
         ELSE LET head == CountAt(data, offset)
              IN  IF head.kind # "none"
                  THEN 2 + Frames(data, head.off, RoundsOf(head.count, data),
                                  IF head.kind = "map" THEN "key" ELSE "array")
                  ELSE IF StrCalled(data, offset) THEN 2
                  ELSE 1
    ELSE IF rounds = 0 THEN 0
    ELSE LET item == _unpack_value(data, offset)
             here == Frames(data, offset, 0, "value")
             left == IF kind = "key" THEN rounds ELSE rounds - 1
             then == CASE kind = "array" -> "array"
                       [] kind = "key" -> IF Hashable(item.val) THEN "val" ELSE "last"
                       [] OTHER -> "key"
         IN  IF item.err # "none" \/ kind = "last" THEN here
             ELSE Max(here, Frames(data, item.off, left, then))

\* The deepest the call stack gets in _unpack_value(data, offset).
CallDepth(data, offset) == Frames(data, offset, 0, "value")

(***************************************************************************)
(* The values handed to pack and the byte strings handed to unpack         *)
(***************************************************************************)
\* The longest list or dict of the generated containers.
MaxLen == 2
\* Encodings of up to MaxCut bytes are cut at every length; longer ones at
\* their first MaxCut lengths, their middle and their last byte.
MaxCut == 12

Rep(x, n) == [i \in 1..n |-> x]

\* "", "a", "key", and the three characters e-acute, euro sign, grinning face
\* (2, 3 and 4 bytes of UTF-8).
StrEmpty == PyStr(<<>>)
StrA == PyStr(<<97>>)
StrKey == PyStr(<<107, 101, 121>>)
StrWide == PyStr(<<233, 8364, 128512>>)

\* The integers around every boundary of _pack_int, within -2^63 .. 2^64-1.
IntsInRange ==
    {PyInt(n) : n \in {0, 1, 127, 128, 255, 256, 65535, 65536, -1, -32, -33, -128,
                       -129, -32768, -32769}}
    \cup {U32Max, MkInt(0, <<0, 0, 1, 0, 0>>), I64Max, MkInt(0, <<0, 32768, 0, 0, 0>>),
          U64Max, I32Min, MkInt(1, <<0, 0, 0, 32768, 1>>), I64Min,
          MkInt(0, <<0, 4660, 22136, 37035, 52719>>)}

\* 2^64 and -2^63 - 1: the first integers no marker holds.
IntsOutOfRange == {MkInt(0, <<1, 0, 0, 0, 0>>), MkInt(1, <<0, 32768, 0, 0, 1>>)}

\* 0.0, -0.0, 1.5, -2.25, 9.99, inf, nan, 5e-324
Floats ==
    {PyFloat(0, 0, <<0, 0, 0, 0>>), PyFloat(1, 0, <<0, 0, 0, 0>>),
     PyFloat(0, 1023, <<8, 0, 0, 0>>), PyFloat(1, 1024, <<2, 0, 0, 0>>),
     PyFloat(0, 1026, <<3, 64225, 18350, 5243>>), PyFloat(0, 2047, <<0, 0, 0, 0>>),
     PyFloat(0, 2047, <<8, 0, 0, 0>>), PyFloat(0, 0, <<0, 0, 0, 1>>)}

\* Texts on both sides of every length class: 0, 31 | 32, 255 | 256, 65535 | 65536
\* bytes of UTF-8.
Texts ==
    {StrEmpty, StrA, StrKey, StrWide, PyStr(Rep(97, 31)), PyStr(Rep(97, 32)),
     PyStr(Rep(233, 16)), PyStr(Rep(97, 255)), PyStr(Rep(97, 256)),
     PyStr(Rep(8364, 100)), PyStr(Rep(97, 65535)), PyStr(Rep(97, 65536))}

\* Bytes on both sides of every length class; 255 and 128 are no UTF-8.
Blobs ==
    {PyBytes(<<>>), PyBytes(<<0>>), PyBytes(<<255, 128>>), PyBytes(Rep(7, 255)),
     PyBytes(Rep(7, 256)), PyBytes(Rep(7, 65535)), PyBytes(Rep(7, 65536))}

Scalars == {PyNone, PyTrue, PyFalse} \cup IntsInRange \cup Floats \cup Texts \cup Blobs

\* What the generated containers hold.
Leaves == {PyNone, PyTrue, PyInt(1), PyInt(-33), StrWide, PyFloat(0, 1023, <<8, 0, 0, 0>>)}
Keys == {StrA, StrKey, PyInt(1)}

SeqsUpTo(S, n) == UNION {[1..k -> S] : k \in 0..n}
Injective(f) == \A i, j \in DOMAIN f : i # j => f[i] # f[j]

\* Every list of up to MaxLen leaves.
FlatLists == {PyList(items) : items \in SeqsUpTo(Leaves, MaxLen)}

\* Every dict of up to MaxLen pairs, keys distinct, in every insertion order.
FlatDicts ==
    {PyDict([i \in DOMAIN ks |-> <<ks[i], vs[i]>>]) :
        <<ks, vs>> \in {p \in SeqsUpTo(Keys, MaxLen) \X SeqsUpTo(Leaves \ {StrWide, PyInt(-33)}, MaxLen) :
                           Len(p[1]) = Len(p[2]) /\ Injective(p[1])}}

\* Containers in containers, to depth three.
Inner ==
    {PyList(<<>>), PyDict(<<>>), PyList(<<PyInt(1), StrA>>),
     PyDict(<<<<StrA, PyList(<<PyNone, PyInt(300)>>)>>>>),
     PyList(<<PyList(<<PyDict(<<<<PyInt(1), PyBytes(<<0>>)>>>>)>>)>>), PyInt(-129)}
NestedLists == {PyList(items) : items \in SeqsUpTo(Inner, MaxLen)}
NestedDicts ==
    {PyDict(<<<<StrKey, a>>, <<PyNone, b>>>>) : a \in Inner, b \in Inner}

\* A mapping of mappings, sequences and scalars, after test_api_response.
ApiResponse ==
    PyDict(<<<<StrKey, PyStr(Rep(97, 40))>>,
             <<StrA, PyDict(<<<<StrKey, PyList(<<PyDict(<<<<StrA, PyInt(1)>>, <<StrKey, PyTrue>>>>),
                                                 PyDict(<<<<StrA, PyInt(2)>>, <<StrKey, PyFalse>>>>)>>)>>,
                              <<StrEmpty, PyInt(2)>>>>)>>,
             <<PyFloat(0, 1023, <<8, 0, 0, 0>>), PyDict(<<<<PyBytes(<<1>>), PyInt(20)>>>>)>>>>)

\* Lists and dicts on both sides of the inline count, 15 | 16.
LongContainers ==
    {PyList(Rep(PyNone, 15)), PyList(Rep(PyInt(200), 16)),
     PyList([i \in 1..17 |-> IF i % 2 = 0 THEN StrA ELSE PyList(<<PyInt(i)>>)]),
     PyDict([i \in 1..15 |-> <<PyInt(i), PyTrue>>]),
     PyDict([i \in 1..16 |-> <<PyInt(i - 40), PyStr(<<96 + i>>)>>]),
     ApiResponse}

\* Values of the types the spec names Nil, Bool, Integer (in range), Float, Text,
\* Bytes, Sequence and Mapping.
SupportedValues ==
    Scalars \cup FlatLists \cup FlatDicts \cup NestedLists \cup NestedDicts
    \cup LongContainers

\* Instances core.py has no isinstance branch for.  A dataclass instance, a
\* NamedTuple instance and an instance of a class with __fastpack_encode__ /
\* __fastpack_decode__ carry their class and their fields in order.
Instance(kind, cls, fields) == <<kind, [cls |-> cls, fields |-> fields]>>

\* Field names "x", "y", "z".
StrX == PyStr(<<120>>)
StrY == PyStr(<<121>>)
StrZ == PyStr(<<122>>)

\* User("Ana", 30) of test_simple_dataclass, Point(10, 20) of
\* test_simple_namedtuple, Money(1000, "USD"), Point3D(1.0, 2.0, 3.0) and
\* Color(255, 128, 0) of TestRegister, TypeA() of test_duplicate_type_code_raises.
UserAna ==
    Instance("dataclass", "User",
             <<<<PyStr(<<110, 97, 109, 101>>), PyStr(<<65, 110, 97>>)>>,
               <<PyStr(<<97, 103, 101>>), PyInt(30)>>>>)
Point1020 == Instance("namedtuple", "Point", <<<<StrX, PyInt(10)>>, <<StrY, PyInt(20)>>>>)
Money1000 ==
    Instance("instance", "Money",
             <<<<PyStr(<<97, 109, 111, 117, 110, 116>>), PyInt(1000)>>,
               <<PyStr(<<99, 117, 114, 114, 101, 110, 99, 121>>), PyStr(<<85, 83, 68>>)>>>>)
Point3D123 ==
    Instance("dataclass", "Point3D",
             <<<<StrX, PyFloat(0, 1023, <<0, 0, 0, 0>>)>>,
               <<StrY, PyFloat(0, 1024, <<0, 0, 0, 0>>)>>,
               <<StrZ, PyFloat(0, 1024, <<8, 0, 0, 0>>)>>>>)
Color255 ==
    Instance("namedtuple", "Color",
             <<<<PyStr(<<114>>), PyInt(255)>>, <<PyStr(<<103>>), PyInt(128)>>,
               <<PyStr(<<98>>), PyInt(0)>>>>)
TypeA0 == Instance("instance", "TypeA", <<>>)

Records == {UserAna, Point1020, Point3D123, Color255}
\* Instances of the classes TestRegister registers.
Registrable == {Money1000, Point3D123, Color255, TypeA0}
\* The mapping of its fields an instance is encoded as.
Encoded(x) == PyDict(x[2].fields)
Instances == Records \cup {Money1000, TypeA0}

\* object(), {1, 2, 3} of TestErrors, and the plain tuple (1, 2).
Strangers == {<<"object", 0>>, <<"set", 0>>, <<"tuple", <<PyInt(1), PyInt(2)>>>>}

\* Every place a value of no supported type can take in a list or a dict:
\* alone, first, in the middle, last, as a dict's value, as a dict's key, and
\* two containers deep.
Around(u) ==
    {u, PyList(<<u>>), PyList(<<u, PyInt(1)>>), PyList(<<StrA, u, PyNone>>),
     PyList(<<PyInt(300), StrWide, u>>), PyDict(<<<<StrA, u>>>>),
     PyDict(<<<<StrKey, PyInt(-129)>>, <<PyInt(1), u>>, <<StrA, PyTrue>>>>),
     PyDict(<<<<StrA, PyList(<<PyInt(1)>>)>>, <<u, PyNone>>>>),
     PyList(<<PyList(<<>>), PyDict(<<<<StrA, PyList(<<PyTrue, u>>)>>>>)>>),
     PyList(Rep(PyInt(70000), 16) \o <<u>>)}

UnsupportedValues == UNION {Around(u) : u \in Strangers \cup Instances}

\* Everything pack is called with.
Values == SupportedValues \cup IntsOutOfRange \cup {PyStr(<<97, 55296>>)} \cup UnsupportedValues

Zeros(n) == Rep(0, n)

\* Lengths and counts on both sides of every step of the ladders.
LadderLengths == {0, 1, 2, 14, 15, 16, 17, 30, 31, 32, 33, 254, 255, 256, 257, 65535, 65536}
\* Numbers of 2- and 3-byte characters on both sides of the 31- and 255-byte steps.
LadderChars == {10, 11, 85, 86, 127, 128}
\* Text of 65535 and of 65536 or more bytes, in characters of 1, 2 and 3 bytes.
LongTexts ==
    {PyStr(Rep(97, 65535)), PyStr(Rep(97, 65536)), PyStr(Rep(233, 32767)),
     PyStr(Rep(233, 32768)), PyStr(Rep(8364, 21845)), PyStr(Rep(8364, 21846))}

\* Text of "a", e-acute and euro sign (1, 2 and 3 bytes each), bytes, lists and
\* dicts of the ladder lengths; the dicts have up to 257 pairs.
LadderValues ==
    {PyStr(Rep(c, n)) : c \in {97, 233, 8364},
                        n \in (LadderLengths \cup LadderChars) \ {65535, 65536}}
    \cup LongTexts
    \cup {PyBytes(Rep(7, n)) : n \in LadderLengths}
    \cup {PyList(Rep(PyNone, n)) : n \in LadderLengths}
    \cup {PyDict([i \in 1..n |-> <<PyInt(i - 1), PyNone>>]) : n \in LadderLengths \ {65535, 65536}}

\* A fixmap of the pairs as a writer that keeps no table of keys emits it:
\* the count, then key and value of every pair.
MapStream(pairs) ==
    <<128 + Len(pairs)>>
    \o Flatten([i \in 1..Len(pairs) |-> pack(pairs[i][1]).bytes \o pack(pairs[i][2]).bytes],
               1, Len(pairs))

\* Two to MaxLen + 1 pairs with keys among "a", 1 and nil, in every order and
\* with every repetition; the i-th value is 10 * i, and "key" in a list last.
PairLists ==
    UNION {{[i \in 1..n |-> <<ks[i], IF i = MaxLen + 1 THEN PyList(<<StrKey>>) ELSE PyInt(10 * i)>>] :
               ks \in [1..n -> {StrA, PyInt(1), PyNone}]} : n \in 2..(MaxLen + 1)}

\* The deepest nesting of the nested streams.
MaxNest == 8

\* [[...[None]...]], {None: {None: ... None}} and the two in turn, n deep; the
\* arrays again with the innermost value cut off.
NestKinds == {"arrays", "maps", "mixed", "cut"}
NestedStream(kind, n) ==
    LET level(i) == CASE kind \in {"arrays", "cut"} -> <<145>>
                      [] kind = "maps" -> <<129, 192>>
                      [] kind = "mixed" -> IF i % 2 = 1 THEN <<145>> ELSE <<129, 192>>
    IN  Flatten([i \in 1..n |-> level(i)], 1, n) \o (IF kind = "cut" THEN <<>> ELSE <<192>>)

\* What follows an encoding in a longer byte string: a fixint, an unassigned
\* byte, continuation bytes of UTF-8, the head of a longer array, a second value.
Tails == {<<0>>, <<193>>, <<128, 191>>, <<221, 255, 255, 255, 255>>, <<161, 97, 192>>}

\* The bytes core.py assigns no marker to: C1, C7..C9, D4..D8.
Unassigned == {193, 199, 200, 201, 212, 213, 214, 215, 216}

\* What leads to a probed marker byte: nothing (the marker is the whole value),
\* a one-element array, a one-pair map before its key, the same before its value.
ProbePrefixes == {<<>>, <<145>>, <<129>>, <<129, 1>>}

\* Byte strings no pack call made: empty, one marker alone, unhashable and
\* repeated map keys, invalid UTF-8 (a lone lead, a lone continuation, an
\* overlong form, a surrogate, a code point past U+10FFFF), float32 values,
\* lengths and counts far beyond the data.
RawInputs ==
    {<<>>} \cup {<<m>> : m \in 0..255}
    \cup {<<129, 144, 0>>, <<129, 128, 0>>, <<130, 1, 10, 1, 11>>, <<130, 1, 10, 195, 11>>,
          <<130, 161, 97, 1, 161, 97, 2>>, <<131, 0, 1, 203, 0, 0, 0, 0, 0, 0, 0, 0, 2, 194, 3>>,
          <<161, 255>>, <<162, 195>>, <<161, 128>>, <<162, 192, 128>>,
          <<163, 237, 160, 128>>, <<164, 244, 144, 128, 128>>, <<217, 2, 195, 169>>,
          <<202, 63, 192, 0, 0>>, <<202, 0, 0, 0, 1>>, <<202, 255, 128, 0, 0>>,
          <<202, 127, 192, 0, 0>>, <<202, 63>>,
          <<221, 255, 255, 255, 255>>, <<221, 255, 255, 255, 255, 1, 2>>,
          <<223, 255, 255, 255, 255, 1>>, <<219, 127, 255, 255, 255, 97>>,
          <<198, 255, 255, 255, 255, 1, 2>>, <<220, 255, 255, 192>>, <<222, 0, 2, 1, 2, 3>>,
          <<146, 198, 255, 255, 255, 255, 7, 1>>, <<146, 217, 200, 97, 1>>,
          <<205, 1>>, <<211, 255, 255, 255, 255, 255, 255, 255>>, <<203, 0, 0, 0>>,
          <<196, 5, 1, 2>>, <<197, 0, 5, 1, 2>>, <<218, 0, 3, 97>>, <<147, 1, 2>>,
          <<130, 1, 2, 3>>, <<146, 1, 204>>}

\* A stream with an extension: the marker e, the one-byte type code, the
\* mapping {"a": 1} as payload; alone, between the elements 1 and 2 of a
\* sequence, and as a mapping's value before a second pair.
ExtStreams(e, code) ==
    LET ext == <<e, code, 129, 161, 97, 1>>
    IN  {ext, <<147, 1>> \o ext \o <<2>>, <<130, 161, 97>> \o ext \o <<161, 98, 2>>}

TypeCodes == {0, 48, 80, 255}

(***************************************************************************)
(* The type registry: register and clear_registry of fastpack.types, which *)
(* __init__.py imports (line 27) and tests/test_extensibility.py calls.    *)
(* The module is not among the sources; it is modelled from spec.md 4.4    *)
(* and from TestRegister.  The registry is a set of [type, code].          *)
(***************************************************************************)
\* Classes of TestRegister: Money and TypeA define __fastpack_encode__ /
\* __fastpack_decode__, Point3D is a dataclass, Color a NamedTuple, InvalidType
\* defines nothing.
Classes == {"Money", "Point3D", "Color", "TypeA", "InvalidType"}
HasContract(cls) == cls # "InvalidType"

\* register(cls) without type_code
NoCode == 0 - 1
\* The type codes TestRegister names, 0x30 and 0x50.
ExplicitCodes == {48, 80}
\* The reserved range the registry assigns from when no code is given.
AutoCodes == 1..(Cardinality(Classes))

AlreadyRegistered == "ValueError: already registered"
IncompleteContract == "TypeError: must have __fastpack_encode__"

CodesOf(reg) == {e.code : e \in reg}
TypesOf(reg) == {e.type : e \in reg}

\* The next unused code of the reserved range.
NextCode(reg) ==
    CHOOSE c \in AutoCodes \ CodesOf(reg) : \A d \in AutoCodes \ CodesOf(reg) : c <= d

\* register(cls, type_code=code) on the registry reg: [err, reg].  All or
\* nothing: a refused registration leaves reg as it was.
register(reg, cls, code) ==
    IF ~HasContract(cls) THEN [err |-> IncompleteContract, reg |-> reg]
    ELSE IF code # NoCode /\ code \in CodesOf(reg)
    THEN [err |-> AlreadyRegistered, reg |-> reg]
    ELSE LET c == IF code = NoCode THEN NextCode({e \in reg : e.type # cls}) ELSE code
         IN  [err |-> "none",
              reg |-> {e \in reg : e.type # cls} \cup {[type |-> cls, code |-> c]}]

\* clear_registry()
clear_registry(reg) == {}

(***************************************************************************)
(* The calls.  obj is the value last handed to pack and packed what the    *)
(* call gave; data is the byte string in hand and origin where it came     *)
(* from; unpacked is what unpack(data) gave and depth the deepest its call  *)
(* stack got.  registry is the registry, regResult the last register or    *)
(* clear_registry call and regBefore the registry before it.               *)
(***************************************************************************)
VARIABLES obj, packed, data, origin, unpacked, registry, regResult, regBefore, depth

vars == <<obj, packed, data, origin, unpacked, registry, regResult, regBefore, depth>>

NotPacked == [err |-> "not run", bytes |-> <<>>, buf |-> <<>>]
NotUnpacked == [err |-> "not run", val |-> PyNone, off |-> 0]
From(kind, pos) == [kind |-> kind, pos |-> pos]
\* The last registry call: what it was given and the exception it raised.
NoCall == [err |-> "none", type |-> "", code |-> NoCode]

Init ==
    /\ obj = PyNone
    /\ packed = NotPacked
    /\ data = <<>>
    /\ origin = From("init", 0)
    /\ unpacked = NotUnpacked
    /\ registry = {}
    /\ regResult = NoCall
    /\ regBefore = {}
    /\ depth = 0

\* data = pack(v)
Pack(v) ==
    /\ origin.kind = "init"
    /\ obj' = v
    /\ packed' = pack(v)
    /\ data' = packed'.bytes
    /\ origin' = From(IF packed'.err = "none" THEN "packed" ELSE "failed", 0)
    /\ UNCHANGED <<unpacked, registry, regResult, regBefore, depth>>

\* The lengths an encoding is cut to.
CutPoints(bytes) ==
    LET n == Len(bytes)
    IN  IF n <= MaxCut THEN 0..(n - 1)
        ELSE (0..(MaxCut - 1)) \cup {n \div 2, n - 1}

\* data = data[:k], a proper prefix of an encoding
Truncate(k) ==
    /\ origin.kind = "packed"
    /\ unpacked = NotUnpacked
    /\ k \in CutPoints(data)
    /\ data' = SubSeq(data, 1, k)
    /\ origin' = From("truncated", k)
    /\ UNCHANGED <<obj, packed, unpacked, registry, regResult, regBefore, depth>>

\* data = b, bytes from elsewhere
Feed(b) ==
    /\ origin.kind = "init"
    /\ data' = b
    /\ origin' = From("raw", 0)
    /\ UNCHANGED <<obj, packed, unpacked, registry, regResult, regBefore, depth>>

\* data = the byte m where a marker is expected, after prefix and before zeros
Probe(prefix, m) ==
    /\ origin.kind = "init"
    /\ data' = prefix \o <<m>> \o Zeros(31)
    /\ origin' = From("probe", Len(prefix) + 1)
    /\ UNCHANGED <<obj, packed, unpacked, registry, regResult, regBefore, depth>>

\* data = a stream with an extension of a type code the registry does not hold
Ext(stream) ==
    /\ origin.kind = "init"
    /\ data' = stream
    /\ origin' = From("ext", 0)
    /\ UNCHANGED <<obj, packed, unpacked, registry, regResult, regBefore, depth>>

\* data = data + t, an encoding followed by other bytes
Trail(t) ==
    /\ origin.kind = "packed"
    /\ unpacked = NotUnpacked
    /\ data' = data \o t
    /\ origin' = From("trailed", Len(data))
    /\ UNCHANGED <<obj, packed, unpacked, registry, regResult, regBefore, depth>>

\* data = a map written pair by pair, keys repeated or not
Repeat(pairs) ==
    /\ origin.kind = "init"
    /\ data' = MapStream(pairs)
    /\ origin' = From("pairs", Len(pairs))
    /\ UNCHANGED <<obj, packed, unpacked, registry, regResult, regBefore, depth>>

\* data = a stream of n arrays or maps, each inside the one before
Deep(kind, n) ==
    /\ origin.kind = "init"
    /\ data' = NestedStream(kind, n)
    /\ origin' = From(kind, n)
    /\ UNCHANGED <<obj, packed, unpacked, registry, regResult, regBefore, depth>>

\* unpacked = unpack(data)
Unpack ==
    /\ origin.kind \in {"packed", "truncated", "trailed", "raw", "probe", "ext", "pairs"}
                        \cup NestKinds
    /\ unpacked = NotUnpacked
    /\ unpacked' = unpack(data)
    /\ depth' = CallDepth(data, 0)
    /\ UNCHANGED <<obj, packed, data, origin, registry, regResult, regBefore>>

Next ==
    \/ \E v \in Values : Pack(v)
    \/ \E k \in CutPoints(data) : Truncate(k)
    \/ \E t \in Tails : Trail(t)
    \/ \E b \in RawInputs : Feed(b)
    \/ \E pairs \in PairLists : Repeat(pairs)
    \/ \E kind \in NestKinds, n \in 1..MaxNest : Deep(kind, n)
    \/ \E prefix \in ProbePrefixes, m \in 0..255 : Probe(prefix, m)
    \/ \E e \in Unassigned, code \in TypeCodes : \E stream \in ExtStreams(e, code) : Ext(stream)
    \/ Unpack

Spec == Init /\ [][Next]_vars

\* register(cls, type_code=code): the next calls start afresh
Register(cls, code) ==
    /\ regBefore' = registry
    /\ registry' = register(registry, cls, code).reg
    /\ regResult' = [err |-> register(registry, cls, code).err, type |-> cls, code |-> code]
    /\ obj' = PyNone
    /\ packed' = NotPacked
    /\ data' = <<>>
    /\ origin' = From("init", 0)
    /\ unpacked' = NotUnpacked
    /\ depth' = 0

\* clear_registry()
ClearRegistry ==
    /\ regBefore' = registry
    /\ registry' = clear_registry(registry)
    /\ regResult' = NoCall
    /\ obj' = PyNone
    /\ packed' = NotPacked
    /\ data' = <<>>
    /\ origin' = From("init", 0)
    /\ unpacked' = NotUnpacked
    /\ depth' = 0

\* Registrations and clearings in any order, each followed by pack and unpack
\* of an instance of a class or of the mapping of its fields.
NextReg ==
    \/ \E cls \in Classes, code \in ExplicitCodes \cup {NoCode} : Register(cls, code)
    \/ ClearRegistry
    \/ \E v \in Registrable \cup {Encoded(x) : x \in Registrable} : Pack(v)
    \/ Unpack

SpecReg == Init /\ [][NextReg]_vars

\* pack of text, bytes, lists and dicts of the ladder lengths.
NextLadder == \E v \in LadderValues : Pack(v)

SpecLadder == Init /\ [][NextLadder]_vars

(***************************************************************************)
(* The properties                                                          *)
(***************************************************************************)
Packed == origin.kind \in {"packed", "failed"}
Unpacked == unpacked.err # "not run"

RECURSIVE IsSupported(_)
\* v is built only from nil, booleans, integers in -2^63 .. 2^64-1, floats,
\* text, bytes, lists and dicts.
IsSupported(v) ==
    CASE v[1] \in {"nil", "bool", "float", "bytes"} -> TRUE
      [] v[1] = "int" -> IntLE(I64Min, v) /\ IntLE(v, U64Max)
      [] v[1] = "str" -> \A i \in 1..Len(v[2]) : ~IsSurrogate(v[2][i])
      [] v[1] = "list" -> \A i \in 1..Len(v[2]) : IsSupported(v[2][i])
      [] v[1] = "dict" ->
            \A i \in 1..Len(v[2]) : IsSupported(v[2][i][1]) /\ IsSupported(v[2][i][2])
      [] OTHER -> FALSE

\* C1: round trip.  pack accepts every value built only from nil, booleans,
\* integers in -2^63 .. 2^64-1, floats, text, bytes, lists and dicts, and
\* unpack(pack(v)) is v (floats compared by their bits, so nan equals nan).
RoundTrip ==
    /\ (Packed /\ IsSupported(obj)) => packed.err = "none"
    /\ (origin.kind = "packed" /\ Unpacked /\ IsSupported(obj)) =>
           (unpacked.err = "none" /\ unpacked.val = obj /\ unpacked.off = Len(data))

\* The nested mapping has made the round trip.
RoundTripWitness ==
    origin.kind = "packed" /\ obj = ApiResponse /\ unpacked.err = "none"
    /\ unpacked.val = ApiResponse

\* C2: truncation.  unpack of a proper prefix of pack(v) fails with the
\* truncated-input error, ValueError "Unexpected end of data"; it returns no value.
TruncationFails ==
    (origin.kind = "truncated" /\ Unpacked) => unpacked.err = EndOfData

\* C3: unpack returns a value or fails with TruncatedInput, UnknownMarker or
\* InvalidText, each a ValueError (UnicodeDecodeError is one); nothing else escapes.
OnlyDecodeErrors ==
    Unpacked => unpacked.err \in {"none", EndOfData, UnknownMarker, "UnicodeDecodeError"}

Between(lo, n, hi) == IntLE(lo, n) /\ IntLE(n, hi)

\* The length C4 gives pack(n).
NarrowestWidth(n) ==
    IF Between(PyInt(-32), n, PyInt(127)) THEN 1
    ELSE IF Between(PyInt(128), n, PyInt(255)) \/ Between(PyInt(-128), n, PyInt(-33)) THEN 2
    ELSE IF Between(PyInt(256), n, PyInt(65535)) \/ Between(PyInt(-32768), n, PyInt(-129))
    THEN 3
    ELSE IF Between(PyInt(65536), n, U32Max) \/ Between(I32Min, n, PyInt(-32769)) THEN 5
    ELSE 9

\* C4: minimal width.  For an integer n in -2^63 .. 2^64-1, pack(n) is 1 byte
\* for -32..127, a marker and 1, 2, 4 or 8 bytes for the narrowest width that
\* holds n, unsigned whenever n >= 0.
MinimalWidth ==
    (origin.kind = "packed" /\ obj[1] = "int") =>
        LET bytes == packed.bytes
            w == NarrowestWidth(obj)
        IN  /\ Len(bytes) = w
            /\ w = 1 => bytes[1] = AsNum(obj) % 256
            /\ (w > 1 /\ IntLE(Zero, obj)) =>
                   bytes[1] = (CASE w = 2 -> _UINT8 [] w = 3 -> _UINT16 [] w = 5 -> _UINT32
                                 [] w = 9 -> _UINT64)
            /\ (w > 1 /\ IntLT(obj, Zero)) =>
                   bytes[1] = (CASE w = 2 -> _INT8 [] w = 3 -> _INT16 [] w = 5 -> _INT32
                                 [] w = 9 -> _INT64)

\* pack(128) or pack(-33) has come out as two bytes.
MinimalWidthWitness ==
    \/ obj = PyInt(128) /\ packed.bytes = <<_UINT8, 128>>
    \/ obj = PyInt(-33) /\ packed.bytes = <<_INT8, 223>>

SupportedTypes == {"nil", "bool", "int", "float", "str", "bytes", "list", "dict"}

\* The values v holds, in the order pack walks them.
Children(v) ==
    IF v[1] = "list" THEN v[2] ELSE IF v[1] = "dict" THEN DictItems(v[2]) ELSE <<>>

RECURSIVE HasStranger(_)
\* v, or a value anywhere inside v, is of no supported type.
HasStranger(v) ==
    \/ v[1] \notin SupportedTypes
    \/ \E i \in 1..Len(Children(v)) : HasStranger(Children(v)[i])

RECURSIVE BytesBefore(_)
\* What pack had appended when it reached the first value of no supported type
\* inside v: the count header of every container it is in and the whole
\* encoding of every value that precedes it.
BytesBefore(v) ==
    IF v[1] \notin SupportedTypes THEN <<>>
    ELSE LET items == Children(v)
             k == CHOOSE i \in 1..Len(items) :
                      HasStranger(items[i]) /\ \A j \in 1..(i - 1) : ~HasStranger(items[j])
             head == IF v[1] = "list"
                     THEN CountHeader(Len(v[2]), 144, _ARRAY16, _ARRAY32, <<>>).buf
                     ELSE CountHeader(Len(v[2]), 128, _MAP16, _MAP32, <<>>).buf
         IN  head
             \o Flatten([i \in 1..(k - 1) |-> pack(items[i]).bytes], 1, k - 1)
             \o BytesBefore(items[k])

MarkerRules ==
    {"posfixint", "fixmap", "fixarray", "fixstr", "negfixint", "none", "false", "true",
     "bin8", "bin16", "bin32", "float32", "float64", "uint8", "uint16", "uint32",
     "uint64", "int8", "int16", "int32", "int64", "str8", "str16", "str32", "array16",
     "array32", "map16", "map32"}

Takes(rule, marker) ==
    CASE rule = "posfixint" -> IsPosFixintMarker(marker)
      [] rule = "fixmap" -> IsFixmap(marker)
      [] rule = "fixarray" -> IsFixarray(marker)
      [] rule = "fixstr" -> IsFixstr(marker)
      [] rule = "negfixint" -> IsNegFixintMarker(marker)
      [] rule = "none" -> marker = _NONE
      [] rule = "false" -> marker = _FALSE
      [] rule = "true" -> marker = _TRUE
      [] rule = "bin8" -> marker = _BIN8
      [] rule = "bin16" -> marker = _BIN16
      [] rule = "bin32" -> marker = _BIN32
      [] rule = "float32" -> marker = _FLOAT32
      [] rule = "float64" -> marker = _FLOAT64
      [] rule = "uint8" -> marker = _UINT8
      [] rule = "uint16" -> marker = _UINT16
      [] rule = "uint32" -> marker = _UINT32
      [] rule = "uint64" -> marker = _UINT64
      [] rule = "int8" -> marker = _INT8
      [] rule = "int16" -> marker = _INT16
      [] rule = "int32" -> marker = _INT32
      [] rule = "int64" -> marker = _INT64
      [] rule = "str8" -> marker = _STR8
      [] rule = "str16" -> marker = _STR16
      [] rule = "str32" -> marker = _STR32
      [] rule = "array16" -> marker = _ARRAY16
      [] rule = "array32" -> marker = _ARRAY32
      [] rule = "map16" -> marker = _MAP16
      [] rule = "map32" -> marker = _MAP32

\* The type of the value a rule decodes.
Decodes(rule) ==
    CASE rule \in {"posfixint", "negfixint", "uint8", "uint16", "uint32", "uint64", "int8",
                   "int16", "int32", "int64"} -> "int"
      [] rule \in {"fixmap", "map16", "map32"} -> "dict"
      [] rule \in {"fixarray", "array16", "array32"} -> "list"
      [] rule \in {"fixstr", "str8", "str16", "str32"} -> "str"
      [] rule \in {"bin8", "bin16", "bin32"} -> "bytes"
      [] rule \in {"float32", "float64"} -> "float"
      [] rule \in {"false", "true"} -> "bool"
      [] rule = "none" -> "nil"

\* The value decoded at the probed position: the whole value, the element of
\* the array, the key or the value of the map's pair.
ProbedValue ==
    CASE origin.pos = 1 -> unpacked.val
      [] origin.pos = 2 /\ data[1] = 145 -> unpacked.val[2][1]
      [] origin.pos = 2 /\ data[1] = 129 -> unpacked.val[2][1][1]
      [] origin.pos = 3 -> unpacked.val[2][1][2]

\* C6: marker dispatch.  Wherever a marker is expected, a byte is taken by
\* exactly one marker rule and decoded as that rule's type of value, or it is
\* one of the unassigned bytes, taken by no rule, and the decode fails with
\* UnknownMarker; an unassigned byte is never decoded as a value.
MarkerDispatch ==
    (origin.kind = "probe" /\ Unpacked) =>
        LET marker == data[origin.pos]
            rules == {r \in MarkerRules : Takes(r, marker)}
        IN  IF marker \in Unassigned
            THEN rules = {} /\ unpacked.err = UnknownMarker
            ELSE /\ Cardinality(rules) = 1
                 /\ unpacked.err # UnknownMarker
                 /\ unpacked.err = "none" => \A r \in rules : ProbedValue[1] = Decodes(r)

\* An unassigned byte has been refused where an array element was expected,
\* and an assigned one decoded there.
MarkerDispatchWitness ==
    /\ origin.kind = "probe" /\ origin.pos = 2 /\ data[1] = 145
    /\ \/ data[2] = 193 /\ unpacked.err = UnknownMarker
       \/ data[2] = 191 /\ unpacked.err = "none"

\* The mapping d holds v under the key k.
Holds(d, k, v) == d[1] = "dict" /\ \E i \in 1..Len(d[2]) : d[2][i] = <<k, v>>

\* The registry entry of the class of x, if any.
Registered(x) == x[2].cls \in TypesOf(registry)

\* C7: registry round trip.  After register(T), with or without a type code,
\* for a class with __fastpack_encode__ / __fastpack_decode__, a dataclass or a
\* NamedTuple, pack(x) of an instance x of T succeeds and unpack(pack(x)) is an
\* instance of T with the fields of x.
RegistryRoundTrip ==
    (Packed /\ obj \in Registrable /\ Registered(obj)) =>
        /\ packed.err = "none"
        /\ Unpacked => (unpacked.err = "none" /\ unpacked.val = obj)

\* The last call was register with a type code another entry held.
Collides ==
    /\ HasContract(regResult.type)
    /\ regResult.code # NoCode
    /\ regResult.code \in CodesOf(regBefore)

\* C8: registry collision.  After any registrations and clearings, register
\* with a type code the registry holds raises ValueError "already registered"
\* and leaves the registry as it was; no two entries share a code; pack and
\* unpack of an instance of the type that holds the code still work.
RegistryCollision ==
    /\ \A e1, e2 \in registry : e1.code = e2.code => e1 = e2
    /\ Collides => (regResult.err = AlreadyRegistered /\ registry = regBefore)
    /\ (Collides /\ Packed /\ obj \in Registrable
            /\ [type |-> obj[2].cls, code |-> regResult.code] \in registry) =>
           /\ packed.err = "none"
           /\ Unpacked => (unpacked.err = "none" /\ unpacked.val = obj)

\* "__dataclass__" and "__namedtuple__", the marker fields of TestDataclass and
\* TestNamedTuple.
MarkerField(kind) ==
    IF kind = "dataclass"
    THEN PyStr(<<95, 95, 100, 97, 116, 97, 99, 108, 97, 115, 115, 95, 95>>)
    ELSE PyStr(<<95, 95, 110, 97, 109, 101, 100, 116, 117, 112, 108, 101, 95, 95>>)

\* cls.__name__
ClassName(cls) ==
    CASE cls = "User" -> PyStr(<<85, 115, 101, 114>>)
      [] cls = "Point" -> PyStr(<<80, 111, 105, 110, 116>>)
      [] cls = "Point3D" -> PyStr(<<80, 111, 105, 110, 116, 51, 68>>)
      [] cls = "Color" -> PyStr(<<67, 111, 108, 111, 114>>)

\* d is a mapping with every field of the record r under its name and the
\* name of its type under the marker field.
IsRecordMapping(d, r) ==
    /\ Holds(d, MarkerField(r[1]), ClassName(r[2].cls))
    /\ \A i \in 1..Len(r[2].fields) : Holds(d, r[2].fields[i][1], r[2].fields[i][2])

\* The record r alone, in a list and as a value of a dict.
RecordPlaces(r) ==
    [alone |-> r, inList |-> PyList(<<StrA, r, PyNone>>), inDict |-> PyDict(<<<<StrA, r>>>>)]

\* C9: auto-detected record.  For an instance x of an unregistered dataclass or
\* NamedTuple, alone or inside a list or a dict, pack succeeds and unpack gives,
\* in the place of x, a mapping with each field of x under its name and the
\* type name under "__dataclass__" or "__namedtuple__".
AutoRecord ==
    \A r \in Records :
        LET p == RecordPlaces(r)
            found == CASE obj = p.alone -> unpacked.val
                       [] obj = p.inList -> unpacked.val[2][2]
                       [] obj = p.inDict -> unpacked.val[2][1][2]
        IN  (Packed /\ obj \in {p.alone, p.inList, p.inDict}) =>
                /\ packed.err = "none"
                /\ Unpacked => (unpacked.err = "none" /\ IsRecordMapping(found, r))

\* C10: unknown extension.  unpack of a stream with an extension marker and a
\* type code the registry does not hold succeeds; in the place of the extension
\* it gives the embedded mapping {"a": 1}, and the values around it in the
\* sequence or the mapping are decoded as usual.
UnknownExtension ==
    (origin.kind = "ext" /\ Unpacked) =>
        /\ unpacked.err = "none"
        /\ CASE data[1] = 147 ->
                    /\ unpacked.val[1] = "list" /\ Len(unpacked.val[2]) = 3
                    /\ unpacked.val[2][1] = PyInt(1) /\ unpacked.val[2][3] = PyInt(2)
                    /\ Holds(unpacked.val[2][2], StrA, PyInt(1))
             [] data[1] = 130 ->
                    /\ Holds(unpacked.val, PyStr(<<98>>), PyInt(2))
                    /\ \E i \in 1..Len(unpacked.val[2]) :
                           /\ unpacked.val[2][i][1] = StrA
                           /\ Holds(unpacked.val[2][i][2], StrA, PyInt(1))
             [] OTHER -> Holds(unpacked.val, StrA, PyInt(1))

\* C11: self-delimiting decode.  For every supported value v and bytes t,
\* _unpack_value(pack(v) + t, 0) is v with the offset len(pack(v)): nothing
\* after the encoding is read, and unpack(pack(v) + t) is v.
SelfDelimiting ==
    (origin.kind = "trailed" /\ Unpacked) =>
        /\ unpacked.err = "none"
        /\ unpacked.val = obj
        /\ unpacked.off = Len(packed.bytes)
        /\ unpacked.off = origin.pos

\* A byte string decoded from before continuation bytes, and a text from
\* before a second text.
SelfDelimitingWitness ==
    /\ origin.kind = "trailed" /\ unpacked.err = "none"
    /\ \/ obj = PyBytes(<<255, 128>>) /\ data = <<196, 2, 255, 128, 128, 191>>
       \/ obj = StrKey /\ data = <<163, 107, 101, 121, 161, 97, 192>>

\* The UTF-8 length of a code point, and of the code points cps[lo..hi].
WidthOf(c) == IF c < 128 THEN 1 ELSE IF c < 2048 THEN 2 ELSE IF c < 65536 THEN 3 ELSE 4

RECURSIVE Utf8Len(_, _, _)
Utf8Len(cps, lo, hi) ==
    IF lo > hi THEN 0
    ELSE IF lo = hi THEN WidthOf(cps[lo])
    ELSE LET mid == (lo + hi) \div 2
         IN  Utf8Len(cps, lo, mid) + Utf8Len(cps, mid + 1, hi)

\* n as nbytes bytes, big-endian; n < 2^31.
BigEndian(n, nbytes) == [i \in 1..nbytes |-> (n \div (256 ^ (nbytes - i))) % 256]

\* The narrowest length form C12 gives a length n: inline up to `inline` (none
\* when inline < 0), then the 8-bit form (none when m8 = 0), the 16-bit and
\* the 32-bit form.
LengthForm(n, inline, fix, m8, m16, m32) ==
    IF n <= inline THEN <<fix + n>>
    ELSE IF m8 # 0 /\ n <= 255 THEN <<m8, n>>
    ELSE IF n <= 65535 THEN <<m16>> \o BigEndian(n, 2)
    ELSE <<m32>> \o BigEndian(n, 4)

\* The length the ladder of v goes by: UTF-8 bytes of a text, else bytes or
\* elements or pairs.
LadderLength(v) == IF v[1] = "str" THEN Utf8Len(v[2], 1, Len(v[2])) ELSE Len(v[2])

\* The length form C12 gives the value v.
LadderHeader(v) ==
    CASE v[1] = "str" -> LengthForm(LadderLength(v), 31, 160, 217, 218, 219)
      [] v[1] = "bytes" -> LengthForm(LadderLength(v), 0 - 1, 0, 196, 197, 198)
      [] v[1] = "list" -> LengthForm(LadderLength(v), 15, 144, 0, 220, 221)
      [] v[1] = "dict" -> LengthForm(LadderLength(v), 15, 128, 0, 222, 223)

\* C12: length ladders.  pack(v) starts with the narrowest length form: for
\* text by UTF-8 byte length (inline to 31, then 8, 16, 32 bits), for bytes by
\* length (8, 16, 32 bits, never inline), for lists and dicts by count (inline
\* to 15, then 16, 32 bits); the empty ones have the same forms with length 0.
\* After it come exactly the bytes of a text or of a byte string.
LengthLadder ==
    (origin.kind = "packed" /\ obj[1] \in {"str", "bytes", "list", "dict"}) =>
        LET head == LadderHeader(obj)
            bytes == packed.bytes
        IN  /\ Len(bytes) >= Len(head)
            /\ SubSeq(bytes, 1, Len(head)) = head
            /\ obj[1] = "str" => bytes = head \o SubSeq(bytes, Len(head) + 1, Len(bytes))
                                 /\ Len(bytes) - Len(head) = LadderLength(obj)
            /\ obj[1] = "bytes" => bytes = head \o obj[2]

\* Sixteen e-acute, 32 bytes of UTF-8, have been packed with an 8-bit length.
LengthLadderWitness ==
    /\ origin.kind = "packed" /\ obj = PyStr(Rep(233, 16))
    /\ SubSeq(packed.bytes, 1, 4) = <<_STR8, 32, 195, 169>>

\* C13: the decoder guards its recursion.  There is a nesting depth from which
\* on unpack refuses a nested stream, or it walks the stream without a frame
\* per level: of the streams nested 1..MaxNest deep the deepest is refused or
\* decoded on a call stack lower than its nesting.
RecursionGuarded ==
    (origin.kind \in NestKinds \ {"cut"} /\ origin.pos = MaxNest /\ Unpacked) =>
        (unpacked.err # "none" \/ depth < origin.pos)

RECURSIVE PairsFrom(_, _, _)
\* The n pairs written in a stream from offset on, each key and value decoded
\* on its own.
PairsFrom(stream, offset, n) ==
    IF n = 0 THEN <<>>
    ELSE LET key == _unpack_value(stream, offset)
             value == _unpack_value(stream, key.off)
         IN  <<<<key.val, value.val>>>> \o PairsFrom(stream, value.off, n - 1)

\* C14: repeated keys.  When a key occurs in more than one of the n pairs of an
\* encoded mapping, unpack succeeds, all n pairs are consumed, and the mapping
\* has one entry for each key, holding the value of the last pair with that
\* key; it has fewer than n entries.
RepeatedKeys ==
    (origin.kind = "pairs" /\ Unpacked) =>
        LET n == origin.pos
            written == PairsFrom(data, 1, n)
            keys == {written[i][1] : i \in 1..n}
            last(k) == CHOOSE i \in 1..n :
                           written[i][1] = k /\ \A j \in (i + 1)..n : written[j][1] # k
            result == unpacked.val[2]
        IN  Cardinality(keys) < n =>
                /\ unpacked.err = "none"
                /\ unpacked.val[1] = "dict"
                /\ unpacked.off = Len(data)
                /\ Len(result) = Cardinality(keys)
                /\ Len(result) < n
                /\ \A k \in keys : \E i \in 1..Len(result) : result[i] = <<k, written[last(k)][2]>>

\* {"a": 10, 1: 20, "a": ["key"]} has been decoded as {"a": ["key"], 1: 20}.
RepeatedKeysWitness ==
    /\ origin.kind = "pairs" /\ origin.pos = 3
    /\ data = <<131, 161, 97, 10, 1, 20, 161, 97, 145, 163, 107, 101, 121>>
    /\ unpacked.err = "none"
    /\ unpacked.val = PyDict(<<<<StrA, PyList(<<StrKey>>)>>, <<PyInt(1), PyInt(20)>>>>)

\* The encodings of the elements of a list one after the other, and of key
\* then value of every pair of a dict, in the order the value holds them.
InOrder(v) ==
    IF v[1] = "list"
    THEN Flatten([i \in 1..Len(v[2]) |-> pack(v[2][i]).bytes], 1, Len(v[2]))
    ELSE Flatten([i \in 1..Len(v[2]) |-> pack(v[2][i][1]).bytes \o pack(v[2][i][2]).bytes],
                 1, Len(v[2]))

\* C15: order.  pack of a list is its count header and the encodings of its
\* elements in order, pack of a dict its count header and key then value of
\* every pair in insertion order, not sorted; unpack gives the elements and
\* the pairs in the order of the stream.
OrderPreserved ==
    /\ (origin.kind = "packed" /\ obj[1] \in {"list", "dict"}) =>
           /\ packed.bytes = LadderHeader(obj) \o InOrder(obj)
           /\ Unpacked => unpacked.val = obj
    /\ (origin.kind = "pairs" /\ Unpacked) =>
           LET written == PairsFrom(data, 1, origin.pos)
           IN  Injective([i \in 1..origin.pos |-> written[i][1]]) =>
                   unpacked.val = PyDict(written)

\* {"key": 1, "a": None}, its keys not in sorted order, has been packed as
\* written and decoded in that order.
OrderPreservedWitness ==
    /\ origin.kind = "packed"
    /\ obj = PyDict(<<<<StrKey, PyInt(1)>>, <<StrA, PyNone>>>>)
    /\ packed.bytes = <<130, 163, 107, 101, 121, 1, 161, 97, 192>>
    /\ unpacked.val = obj

====
